---- MODULE Spec2Model ----
(***************************************************************************)
(* Model of src/8t0b_develop_a_secur.ts: SecureDevOpsPipelineController.   *)
(*                                                                         *)
(* The program is a single-threaded Node.js process.  Every action below   *)
(* is one macrotask of the event loop together with the promise            *)
(* continuations (microtasks) it schedules, because those run to           *)
(* completion before the next macrotask is taken:                          *)
(*   - AddPipelineStep : a call of addPipelineStep                         *)
(*   - RunPipeline     : the call of runPipeline (route + server.listen)   *)
(*   - PostPipeline    : the POST /pipeline handler, up to and including   *)
(*                       the first spawn of executePipelineSteps           *)
(*   - ChildExit       : the 'exit' event of a child process, the          *)
(*                       resolve/reject it causes and the resumption of    *)
(*                       executePipelineSteps up to its next await         *)
(***************************************************************************)
EXTENDS Integers, Sequences, FiniteSets, TLC

\* ---------------------------------------------------------------- bounds
MaxRequests == 2
MaxSteps == 2

Requests == 1..MaxRequests

\* ------------------------------------------------------ JavaScript values
Undefined == [type |-> "undefined", val |-> ""]
Null == [type |-> "null", val |-> ""]
Str(s) == [type |-> "string", val |-> s]
Num(s) == [type |-> "number", val |-> s]

\* `${v}` : template-literal conversion of a value to text
ToText(v) ==
  CASE v.type = "undefined" -> "undefined"
    [] v.type = "null" -> "null"
    [] OTHER -> v.val

\* (variant: only an absent value counts)
FalsyAbsentOnly(v) == v.type = "undefined"

\* !v for the values a JSON body field can carry
Falsy(v) ==
  \/ v.type = "undefined"
  \/ v.type = "null"
  \/ v.type = "string" /\ v.val = ""
  \/ v.type = "number" /\ v.val = "0"

\* ------------------------------------------------------------ the inputs
PipelineNames == {"alpha", "beta"}
TriggerStrings == {"deploy", "other"}
Triggers == {Undefined, Str("")} \cup {Str(t) : t \in TriggerStrings}

\* crypto.createHmac('sha256', key).update(message).digest('hex'):
\* a keyed digest, distinct for distinct (key, message)
Hmac(key, message) == "hmac-sha256(" \o key \o "," \o message \o ")"

\* the body of a request carries a trigger; a caller may send, next to it,
\* the digest of the trigger under the pipeline's key
PresentedTokens(key, trigger) ==
  {Undefined} \cup (IF trigger.type = "string" /\ trigger.val # ""
                    THEN {Str(Hmac(key, trigger.val))} ELSE {})

\* lines 109-119: the steps the program registers
BuildStep ==
  [name |-> "Build", command |-> "npm run build",
   environmentVariables |-> ("NODE_ENV" :> "production")]
DeployStep(deploymentEnvironment) ==
  [name |-> "Deploy", command |-> "docker deploy -p " \o deploymentEnvironment,
   environmentVariables |-> ("DEPLOYMENT_ENVIRONMENT" :> deploymentEnvironment)]
StepPool(cfg) == {BuildStep, DeployStep(cfg.deploymentEnvironment)}

\* exit codes reported by the 'exit' event: a number, or null when the child
\* was terminated by a signal
ExitCodes == {Num("0"), Num("1"), Null}

\* what line 77 can do: the reference to childProcess faults (the binding is
\* read inside its own initializer), or it denotes the child_process
\* facility and the command is launched, or the launch itself fails and the
\* child reports 'error' and never 'exit'
ExecOutcomes == {"fault", "spawned", "error"}

\* chunks written by all children together
MaxChunks == 2
\* childProcess.stdout, childProcess.stderr
Streams == {"stdout", "stderr"}
\* the children a program run can have
Children == Requests \X (1..MaxSteps)

\* ----------------------------------------------------------------- state
VARIABLES
  config,         \* this.config
  processEnv,     \* process.env
  pipelineSteps,  \* this.pipelineSteps
  listening,      \* server.listen was called
  req,            \* per request: the payload and the responses sent
  run,            \* per request: the activation of executePipelineSteps
  procs,          \* per request: the child processes spawned for it, in order
  planned,        \* history: per request, this.pipelineSteps at line 56
  down,           \* environment: the controller's process was shut down
  pipes,          \* environment: per child and stream, chunks written, unread
  console         \* environment: the chunks logged, in order

vars == <<config, processEnv, pipelineSteps, listening, req, run, procs,
          planned, down, pipes, console>>

\* digest and afterRun are history fields: whether line 50 was evaluated for
\* the request, and whether a run had already ended when the request arrived
NoRequest ==
  [arrived |-> FALSE, trigger |-> Undefined, token |-> Undefined,
   digest |-> FALSE, afterRun |-> FALSE, responses |-> <<>>]
NoRun == [state |-> "none", idx |-> 0]

Response(status, body) == [status |-> status, body |-> body]

\* the promise of executePipelineSteps has settled
Ended(rn) == rn.state \in {"succeeded", "failed"}

Init ==
  /\ config \in [pipelineName : PipelineNames, deploymentEnvironment : {"staging"}]
  /\ processEnv \in
       {("PATH" :> "/usr/bin"),
        ("PATH" :> "/usr/bin") @@ ("TRIGGER_TOKEN" :> Hmac("alpha", "deploy"))}
  /\ pipelineSteps = <<>>
  /\ listening = FALSE
  /\ req = [r \in Requests |-> NoRequest]
  /\ run = [r \in Requests |-> NoRun]
  /\ procs = [r \in Requests |-> <<>>]
  /\ planned = [r \in Requests |-> <<>>]
  /\ down = FALSE
  /\ pipes = [c \in Children |-> [s \in Streams |-> <<>>]]
  /\ console = <<>>

\* process.env.KEY
EnvGet(env, key) == IF key \in DOMAIN env THEN Str(env[key]) ELSE Undefined

\* ------------------------------------------------------- addPipelineStep
AddPipelineStep(step) ==
  /\ Len(pipelineSteps) < MaxSteps
  /\ pipelineSteps' = Append(pipelineSteps, step)
  /\ UNCHANGED <<config, processEnv, listening, req, run, procs>>

\* ----------------------------------------------------------- runPipeline
RunPipeline ==
  /\ ~listening
  /\ listening' = TRUE
  /\ UNCHANGED <<config, processEnv, pipelineSteps, req, run, procs>>

\* ------------------------------------------------------- executeCommand
\* line 77: the options of exec
ChildEnv(step, env) == step.environmentVariables

Exec(r, i, step, env, state) ==
  [req |-> r, idx |-> i, step |-> step.name, command |-> step.command,
   env |-> ChildEnv(step, env), state |-> state, code |-> Undefined]

\* (variants: every exit counts as success; every numeric code does; every
\* falsy code does, as with !code)
ExitOkAny(code) == TRUE
ExitOkNumber(code) == code.type = "number"
ExitOkFalsy(code) == Falsy(code)

\* line 88
ExitOk(code) == code = Num("0")

\* line 91: new Error(`Command failed with code ${code}`), as `${err}`
CommandFailed(code) == <<"Error", ": ", "Command failed with code ", ToText(code)>>

\* `${err}` of the fault of line 77
ReferenceFault == <<"ReferenceError", ": ", "Cannot access 'childProcess' before initialization">>

\* ------------------------------------------------- executePipelineSteps
\* the for-of loop over this.pipelineSteps: is there a step after the
\* i steps already taken
\* (variant: the loop stops one step early)
HasNextSkipLast(steps, i) == i + 1 < Len(steps)

HasNext(steps, i) == i < Len(steps)

\* lines 56-60: the response to the settled promise of executePipelineSteps
OnFulfilled == Response(200, <<"Pipeline executed successfully">>)
OnRejected(err) == Response(500, <<"Error executing pipeline: ">> \o err)

\* (variant: the loop does not advance, the step that has exited is run again)
ExecutePipelineStepsAgain(r, i, outcome, steps, ps, env) ==
  LET k == IF i = 0 THEN 1 ELSE i IN
  IF ~HasNext(steps, i)
  THEN [procs |-> ps, run |-> [state |-> "succeeded", idx |-> i],
        sent |-> <<OnFulfilled>>]
  ELSE CASE outcome = "fault" ->
              [procs |-> ps, run |-> [state |-> "failed", idx |-> k],
               sent |-> <<OnRejected(ReferenceFault)>>]
         [] outcome = "spawned" ->
              [procs |-> Append(ps, Exec(r, k, steps[k], env, "running")),
               run |-> [state |-> "running", idx |-> k],
               sent |-> <<>>]
         [] outcome = "error" ->
              [procs |-> Append(ps, Exec(r, k, steps[k], env, "error")),
               run |-> [state |-> "running", idx |-> k],
               sent |-> <<>>]

\* The loop of executePipelineSteps for request r, entered with i steps
\* taken, with the outcome of the exec of the next step (if there is one):
\* the processes, r's run and the response sent (<<>> when none is)
ExecutePipelineSteps(r, i, outcome, steps, ps, env) ==
  IF ~HasNext(steps, i)
  THEN [procs |-> ps, run |-> [state |-> "succeeded", idx |-> i],
        sent |-> <<OnFulfilled>>]
  ELSE CASE outcome = "fault" ->
              [procs |-> ps, run |-> [state |-> "failed", idx |-> i + 1],
               sent |-> <<OnRejected(ReferenceFault)>>]
         [] outcome = "spawned" ->
              [procs |-> Append(ps, Exec(r, i + 1, steps[i + 1], env, "running")),
               run |-> [state |-> "running", idx |-> i + 1],
               sent |-> <<>>]
         [] outcome = "error" ->
              [procs |-> Append(ps, Exec(r, i + 1, steps[i + 1], env, "error")),
               run |-> [state |-> "running", idx |-> i + 1],
               sent |-> <<>>]

\* ------------------------------------------------ POST /pipeline handler
\* line 50
TriggerToken(cfg, trigger) == Hmac(cfg.pipelineName, trigger.val)

\* (variants: the comparison of line 51 is dropped; it is skipped when no
\* expected token is set)
VerifiedAny(cfg, env, trigger) == TRUE
VerifiedOrUnset(cfg, env, trigger) ==
  \/ EnvGet(env, "TRIGGER_TOKEN") = Undefined
  \/ Str(Hmac(cfg.pipelineName, trigger.val)) = EnvGet(env, "TRIGGER_TOKEN")

\* line 51 (negated): the digest is the expected token
Verified(cfg, env, trigger) ==
  Str(TriggerToken(cfg, trigger)) = EnvGet(env, "TRIGGER_TOKEN")

\* (variant: one iterator shared by all activations)
StartIndexShared(r, runs) ==
  CHOOSE n \in 0..MaxSteps :
    /\ \A q \in Requests : runs[q].idx <= n
    /\ \E q \in Requests : runs[q].idx = n

\* line 70: for (const step of this.pipelineSteps) opens a fresh iterator
\* for every activation: the number of steps already taken when it starts
StartIndex(r, runs) == 0

PostPipeline(r, trigger, token, outcome) ==
  /\ listening
  /\ ~req[r].arrived
  /\ \A q \in Requests : q < r => req[q].arrived
  /\ LET arrived == [req[r] EXCEPT !.arrived = TRUE, !.trigger = trigger,
                                   !.token = token,
                                   !.afterRun = \E q \in Requests : Ended(run[q])]
     IN
     IF Falsy(trigger)
     THEN /\ req' = [req EXCEPT ![r] =
                 [arrived EXCEPT !.responses = <<Response(401, <<"Unauthorized">>)>>]]
          /\ UNCHANGED <<run, procs>>
     ELSE IF ~Verified(config, processEnv, trigger)
     THEN /\ req' = [req EXCEPT ![r] =
                 [arrived EXCEPT !.digest = TRUE,
                                 !.responses = <<Response(401, <<"Unauthorized">>)>>]]
          /\ UNCHANGED <<run, procs>>
     ELSE LET it == ExecutePipelineSteps(r, StartIndex(r, run), outcome, pipelineSteps,
                            procs[r], processEnv)
          IN /\ req' = [req EXCEPT ![r] =
                    [arrived EXCEPT !.digest = TRUE, !.responses = it.sent]]
             /\ run' = [run EXCEPT ![r] = it.run]
             /\ procs' = [procs EXCEPT ![r] = it.procs]
  /\ UNCHANGED <<config, processEnv, pipelineSteps, listening>>

\* ----------------------------------------------------- the 'exit' event
ChildExit(r, pid, code, outcome) ==
  /\ pid \in DOMAIN procs[r]
  /\ procs[r][pid].state = "running"
  /\ LET exited == [procs[r] EXCEPT ![pid].state = "exited", ![pid].code = code]
     IN
     IF ExitOk(code)
     THEN LET it == ExecutePipelineSteps(r, run[r].idx, outcome, pipelineSteps, exited, processEnv)
          IN /\ procs' = [procs EXCEPT ![r] = it.procs]
             /\ run' = [run EXCEPT ![r] = it.run]
             /\ req' = [req EXCEPT ![r].responses = @ \o it.sent]
     ELSE /\ procs' = [procs EXCEPT ![r] = exited]
          /\ run' = [run EXCEPT ![r].state = "failed"]
          /\ req' = [req EXCEPT ![r].responses =
                        Append(@, OnRejected(CommandFailed(code)))]
  /\ UNCHANGED <<config, processEnv, pipelineSteps, listening>>

\* ------------------------------------------------------------ the claims
\* vocabulary of the claims, spelled out on the state
Running(r) == {i \in DOMAIN procs[r] : procs[r][i].state = "running"}
RunInProgress(r) == run[r].state = "running" /\ Running(r) # {}
ExitedWith0(p) == p.state = "exited" /\ p.code = Num("0")
ExitedNonZero(p) == p.state = "exited" /\ p.code # Num("0")
NonEmpty(trigger) == trigger.type = "string" /\ trigger.val # ""
\* the trigger's keyed digest is the expected token
PassesVerification(trigger) ==
  /\ NonEmpty(trigger)
  /\ "TRIGGER_TOKEN" \in DOMAIN processEnv
  /\ processEnv["TRIGGER_TOKEN"] = Hmac(config.pipelineName, trigger.val)
Arrives(r) == ~req[r].arrived /\ req'[r].arrived
Unauthorized == [status |-> 401, body |-> <<"Unauthorized">>]
Sent(rq, status) == \E i \in DOMAIN rq.responses : rq.responses[i].status = status
Contains(body, text) == \E i \in DOMAIN body : body[i] = text

\* C1: at most one pipeline run is in progress at any instant: no second run
\* starts while an earlier one has not terminated.
C1_SingleFlight == Cardinality({r \in Requests : RunInProgress(r)}) <= 1

\* C2: an authenticated trigger that arrives while a run is in progress is
\* answered 409 "Pipeline already running" at once and starts no step.
C2_RejectedWhileRunning ==
  [][\A r \in Requests :
       (Arrives(r) /\ PassesVerification(req'[r].trigger)
          /\ \E q \in Requests : RunInProgress(q))
       => /\ req'[r].responses = <<[status |-> 409, body |-> <<"Pipeline already running">>]>>
          /\ procs'[r] = <<>>
          /\ run'[r].state = "none"]_vars

\* C3: a step process exists for a request, or a run was started for it, only
\* if its trigger passed verification; a request whose trigger did not pass
\* is answered 401, and a request answered 401 has no run and no process.
C3_NoUnauthenticatedExecution ==
  \A r \in Requests :
    /\ (procs[r] # <<>> \/ run[r].state # "none")
         => req[r].arrived /\ PassesVerification(req[r].trigger)
    /\ (req[r].arrived /\ ~PassesVerification(req[r].trigger))
         => req[r].responses = <<Unauthorized>>
    /\ Sent(req[r], 401) => procs[r] = <<>> /\ run[r].state = "none"

\* a wrong trigger was answered 401 while another request's step was spawned
C3_Witness ==
  \E r, q \in Requests :
    /\ req[r].arrived /\ req[r].trigger = Str("other")
    /\ req[r].responses = <<Unauthorized>>
    /\ procs[q] # <<>>

\* C4: a trigger is accepted if and only if the token presented with it is
\* HMAC-SHA256(key = the configured secret, message = the trigger): the
\* matching token is always accepted, any other presented token is rejected
\* (stated for a process whose expected token is set to a digest under its
\* own key).
C4_PresentedTokenDecides ==
  \A r \in Requests :
    (/\ req[r].arrived /\ NonEmpty(req[r].trigger)
     /\ "TRIGGER_TOKEN" \in DOMAIN processEnv
     /\ \E t \in TriggerStrings :
          processEnv["TRIGGER_TOKEN"] = Hmac(config.pipelineName, t))
      => (run[r].state # "none"
            <=> req[r].token = Str(Hmac(config.pipelineName, req[r].trigger.val)))

\* C5: a request with a missing or empty trigger is answered 401
\* "Unauthorized" without the digest being computed, without a run and
\* without a step.
C5_MissingTriggerShortCircuit ==
  \A r \in Requests :
    (req[r].arrived /\ (req[r].trigger = Undefined \/ req[r].trigger = Str("")))
      => /\ req[r].responses = <<Unauthorized>>
         /\ ~req[r].digest
         /\ run[r].state = "none"
         /\ procs[r] = <<>>

\* one request came without a trigger and one with an empty one
C5_Witness ==
  \E r, q \in Requests :
    /\ req[r].arrived /\ req[r].trigger = Undefined /\ Sent(req[r], 401)
    /\ req[q].arrived /\ req[q].trigger = Str("") /\ Sent(req[q], 401)

\* C6: within one run the steps are executed one after the other in insertion
\* order: the i-th process of a run runs the i-th step, every process before
\* the latest one has exited with code 0, and at most one is running.
C6_SequentialInOrder ==
  \A r \in Requests :
    /\ Len(procs[r]) <= Len(pipelineSteps)
    /\ \A i \in DOMAIN procs[r] :
         /\ procs[r][i].step = pipelineSteps[i].name
         /\ procs[r][i].command = pipelineSteps[i].command
         /\ i < Len(procs[r]) => ExitedWith0(procs[r][i])
    /\ Cardinality(Running(r)) <= 1

\* the second step of a run is running after the first exited with 0
C6_Witness ==
  \E r \in Requests :
    /\ Len(procs[r]) = 2
    /\ ExitedWith0(procs[r][1])
    /\ procs[r][2].state = "running"
    /\ procs[r][1].step # procs[r][2].step

\* C7: when a step exits with a non-zero code the run has failed and has
\* answered 500, every step before it exited with 0, and no step after it was
\* started.
C7_AbortOnFirstFailure ==
  \A r \in Requests : \A i \in DOMAIN procs[r] :
    ExitedNonZero(procs[r][i])
      => /\ i = Len(procs[r])
         /\ run[r].state = "failed"
         /\ Len(req[r].responses) = 1 /\ Sent(req[r], 500)
         /\ \A j \in 1..(i - 1) : ExitedWith0(procs[r][j])

\* one run failed at its first step with a second step configured and never
\* started, another run failed at its second step after the first succeeded
C7_Witness ==
  \E r, q \in Requests :
    /\ Len(pipelineSteps) = 2
    /\ Len(procs[r]) = 1 /\ ExitedNonZero(procs[r][1])
    /\ Len(procs[q]) = 2 /\ ExitedWith0(procs[q][1]) /\ ExitedNonZero(procs[q][2])

\* C8: 200 "Pipeline executed successfully" is sent for a request if and only
\* if every configured step of its run exited with code 0, and it is sent
\* only when the last step has terminated.
C8_Sent200(rq) ==
  \E i \in DOMAIN rq.responses :
    rq.responses[i] = [status |-> 200, body |-> <<"Pipeline executed successfully">>]
C8_AllStepsExited0(ps, steps) ==
  /\ Len(ps) = Len(steps)
  /\ \A i \in DOMAIN ps : ExitedWith0(ps[i]) /\ ps[i].step = steps[i].name
C8_SuccessResponse ==
  /\ [](\A r \in Requests :
          /\ C8_Sent200(req[r]) => /\ run[r].state = "succeeded"
                                   /\ \A i \in DOMAIN procs[r] : ExitedWith0(procs[r][i])
          /\ (run[r].state # "none" /\ C8_AllStepsExited0(procs[r], pipelineSteps))
               => C8_Sent200(req[r]))
  /\ [][\A r \in Requests :
          (~C8_Sent200(req[r]) /\ C8_Sent200(req'[r]))
            => C8_AllStepsExited0(procs'[r], pipelineSteps')]_vars

\* a request was answered 200 after both of its steps exited with 0
C8_Witness ==
  \E r \in Requests :
    /\ C8_Sent200(req[r])
    /\ Len(procs[r]) = 2
    /\ \A i \in DOMAIN procs[r] : ExitedWith0(procs[r][i])

\* C9: when a step exits with a non-zero code the caller receives 500
\* "Error executing pipeline: <message>", the message naming the failing step
\* and its exit code.
C9_FailureNamesStepAndCode ==
  \A r \in Requests : \A i \in DOMAIN procs[r] :
    (ExitedNonZero(procs[r][i]) /\ procs[r][i].code.type = "number")
      => \E k \in DOMAIN req[r].responses :
           LET res == req[r].responses[k] IN
           /\ res.status = 500
           /\ res.body[1] = "Error executing pipeline: "
           /\ Contains(res.body, procs[r][i].step)
           /\ Contains(res.body, ToText(procs[r][i].code))

C11_LaunchFailureIsStepFailure ==
  \A r \in Requests : \A i \in DOMAIN procs[r] :
    procs[r][i].state = "error"
      => /\ run[r].state = "failed"
         /\ i = Len(procs[r])
         /\ \E k \in DOMAIN req[r].responses :
              /\ req[r].responses[k].status = 500
              /\ Contains(req[r].responses[k].body, procs[r][i].step)

\* C12: the environment of a step's process is the baseline process
\* environment merged with the step's environmentVariables: baseline keys the
\* step does not override keep their baseline value, the step's keys have the
\* step's value.
C12_EnvironmentMerged ==
  \A r \in Requests : \A i \in DOMAIN procs[r] :
    LET own == pipelineSteps[procs[r][i].idx].environmentVariables
        env == procs[r][i].env
    IN /\ \A k \in DOMAIN own : k \in DOMAIN env /\ env[k] = own[k]
       /\ \A k \in DOMAIN processEnv \ DOMAIN own :
            k \in DOMAIN env /\ env[k] = processEnv[k]

\* C13: no child process outlives its run.  Whenever a run has ended, because
\* all steps succeeded, a step failed, or the run was aborted from outside
\* while in progress, no child spawned by that run is still running.
Aborted(r) == down /\ run[r].state = "running"
C13_NoChildOutlivesRun ==
  \A r \in Requests :
    (Ended(run[r]) \/ Aborted(r)) => Running(r) = {}

\* C14: the exit of a step's child is acted on only after every chunk the
\* child wrote to stdout and stderr has been logged, and the chunks of each
\* stream are logged in the order they were written.
C14_OutputDrainedBeforeExit ==
  /\ \A r \in Requests : \A i \in DOMAIN procs[r] :
       procs[r][i].state = "exited"
         => \A s \in Streams : pipes[<<r, i>>][s] = <<>>
  /\ \A j, k \in DOMAIN console :
       /\ j < k
       /\ console[j].req = console[k].req
       /\ console[j].pid = console[k].pid
       /\ console[j].stream = console[k].stream
       => console[j].chunk < console[k].chunk

\* C15: the step list is read-only during a run: a call of addPipelineStep
\* made while a run is in progress does not change the steps that run
\* executes, which are the steps configured when the run started.
C15_StepListFixedDuringRun ==
  \A r \in Requests :
    /\ Len(procs[r]) <= Len(planned[r])
    /\ \A i \in DOMAIN procs[r] : procs[r][i].step = planned[r][i].name
    /\ run[r].state = "succeeded" => Len(procs[r]) = Len(planned[r])

\* C16: no automatic retry: within one run every position of the step list
\* is spawned at most once, in particular a step that has failed (or could
\* not be launched) is never spawned again.
C16_NoRetry ==
  \A r \in Requests : \A i \in DOMAIN procs[r] :
    /\ procs[r][i].idx \in DOMAIN pipelineSteps
    /\ \A j \in DOMAIN procs[r] : i # j => procs[r][i].idx # procs[r][j].idx
    /\ (ExitedNonZero(procs[r][i]) \/ procs[r][i].state = "error")
         => i = Len(procs[r])

\* a run whose second step failed has spawned each of its two steps once
C16_Witness ==
  \E r \in Requests :
    /\ run[r].state = "failed"
    /\ Len(procs[r]) = 2
    /\ procs[r][1].idx = 1 /\ procs[r][2].idx = 2
    /\ procs[r][2].state = "exited" /\ procs[r][2].code = Num("1")

\* C17: a step whose process ends without exit code 0, for any reason, the
\* code null of a termination by signal included, is a failed step: the run
\* has failed and the caller has 500 and never 200.
C17_NullCodeFails ==
  \A r \in Requests : \A i \in DOMAIN procs[r] :
    (procs[r][i].state = "exited" /\ procs[r][i].code # Num("0"))
      => /\ run[r].state = "failed"
         /\ Sent(req[r], 500)
         /\ ~Sent(req[r], 200)

\* a step was terminated by a signal and its request was answered 500
C17_Witness ==
  \E r \in Requests : \E i \in DOMAIN procs[r] :
    /\ procs[r][i].state = "exited" /\ procs[r][i].code = Null
    /\ Sent(req[r], 500)

\* C18: every request receives exactly one response, one of 401, 409, 200
\* and 500, provided every spawned child terminates: a request never has more
\* than one response, and while it has none a child of its run is still
\* running, whose exit the run is waiting for.
C18_EveryRequestAnswered ==
  \A r \in Requests :
    req[r].arrived
      => /\ Len(req[r].responses) <= 1
         /\ \A k \in DOMAIN req[r].responses :
              req[r].responses[k].status \in {401, 409, 200, 500}
         /\ req[r].responses = <<>> => Running(r) # {}

\* C19: fail closed: when the expected token (process.env.TRIGGER_TOKEN) is
\* not set, every request, whatever its trigger, is answered 401 and no run
\* is started.
C19_FailClosedWithoutToken ==
  "TRIGGER_TOKEN" \notin DOMAIN processEnv
    => \A r \in Requests :
         /\ req[r].arrived => req[r].responses = <<Unauthorized>>
         /\ run[r].state = "none"
         /\ procs[r] = <<>>

\* without an expected token, requests with each trigger string were answered
\* 401
C19_Witness ==
  /\ "TRIGGER_TOKEN" \notin DOMAIN processEnv
  /\ \E r, q \in Requests :
       /\ req[r].arrived /\ req[r].trigger = Str("deploy") /\ Sent(req[r], 401)
       /\ req[q].arrived /\ req[q].trigger = Str("other") /\ Sent(req[q], 401)

\* ------------------------------------------------------ the specifications
Post ==
  \E r \in Requests, trigger \in Triggers, outcome \in ExecOutcomes :
    PostPipeline(r, trigger, Undefined, outcome)

PostWithToken ==
  \E r \in Requests, trigger \in Triggers, outcome \in ExecOutcomes :
    \E token \in PresentedTokens(config.pipelineName, trigger) :
      PostPipeline(r, trigger, token, outcome)

Exit ==
  \E r \in Requests, pid \in 1..MaxSteps, code \in ExitCodes,
     outcome \in ExecOutcomes :
    ChildExit(r, pid, code, outcome)

Add == \E step \in StepPool(config) : AddPipelineStep(step)

Next ==
  \/ Add /\ UNCHANGED <<planned, down, pipes, console>>
  \/ RunPipeline /\ UNCHANGED <<planned, down, pipes, console>>
  \/ Post /\ UNCHANGED <<planned, down, pipes, console>>
  \/ Exit /\ UNCHANGED <<planned, down, pipes, console>>

Spec == Init /\ [][Next]_vars

\* the same program, with callers that also present a token
NextToken ==
  \/ Add /\ UNCHANGED <<planned, down, pipes, console>>
  \/ RunPipeline /\ UNCHANGED <<planned, down, pipes, console>>
  \/ PostWithToken /\ UNCHANGED <<planned, down, pipes, console>>
  \/ Exit /\ UNCHANGED <<planned, down, pipes, console>>

SpecToken == Init /\ [][NextToken]_vars

\* the same program, recording for every run the step list it was started on
Record ==
  planned' = [r \in Requests |->
                IF run[r].state = "none" /\ run'[r].state # "none"
                THEN pipelineSteps ELSE planned[r]]

NextPlanned ==
  \/ Add /\ Record /\ UNCHANGED <<down, pipes, console>>
  \/ RunPipeline /\ Record /\ UNCHANGED <<down, pipes, console>>
  \/ Post /\ Record /\ UNCHANGED <<down, pipes, console>>
  \/ Exit /\ Record /\ UNCHANGED <<down, pipes, console>>

SpecPlanned == Init /\ [][NextPlanned]_vars

\* ------------------------------------------------------------ shutdown
\* the controller's process is terminated from outside.  No handler for a
\* termination signal is registered and no child is ever killed, so the
\* children it spawned are left as they are.
Shutdown ==
  /\ listening
  /\ ~down
  /\ down' = TRUE
  /\ UNCHANGED <<config, processEnv, pipelineSteps, listening, req, run,
                 procs, planned, pipes, console>>

Up == ~down /\ UNCHANGED <<planned, down, pipes, console>>

NextAbort ==
  \/ Add /\ Up
  \/ RunPipeline /\ Up
  \/ Post /\ Up
  \/ Exit /\ Up
  \/ Shutdown

SpecAbort == Init /\ [][NextAbort]_vars

\* -------------------------------------------------------------- output
\* chunks written by child <<r, i>> on stream s so far
Written(r, i, s) ==
  Len(pipes[<<r, i>>][s])
    + Cardinality({k \in DOMAIN console :
                     /\ console[k].req = r /\ console[k].pid = i
                     /\ console[k].stream = s})

TotalWritten ==
  LET Sum[cs \in SUBSET (Children \X Streams)] ==
        IF cs = {} THEN 0
        ELSE LET c == CHOOSE x \in cs : TRUE
             IN Written(c[1][1], c[1][2], c[2]) + Sum[cs \ {c}]
  IN Sum[Children \X Streams]

\* a running child writes a chunk to one of its streams
Produce(r, i, s) ==
  /\ i \in Running(r)
  /\ TotalWritten < MaxChunks
  /\ pipes' = [pipes EXCEPT ![<<r, i>>][s] = Append(@, Written(r, i, s) + 1)]
  /\ UNCHANGED <<config, processEnv, pipelineSteps, listening, req, run,
                 procs, planned, down, console>>

\* childProcess.stdout.on('data') / childProcess.stderr.on('data'): the
\* oldest unread chunk of the stream is logged.  The listeners stay
\* registered after 'exit'.
Data(r, i, s) ==
  /\ i \in DOMAIN procs[r]
  /\ procs[r][i].state \in {"running", "exited"}
  /\ pipes[<<r, i>>][s] # <<>>
  /\ console' = Append(console, [req |-> r, pid |-> i, stream |-> s,
                                 chunk |-> Head(pipes[<<r, i>>][s])])
  /\ pipes' = [pipes EXCEPT ![<<r, i>>][s] = Tail(@)]
  /\ UNCHANGED <<config, processEnv, pipelineSteps, listening, req, run,
                 procs, planned, down>>

Write == \E r \in Requests, i \in 1..MaxSteps, s \in Streams : Produce(r, i, s)
Read == \E r \in Requests, i \in 1..MaxSteps, s \in Streams : Data(r, i, s)

NextOutput ==
  \/ Add /\ UNCHANGED <<planned, down, pipes, console>>
  \/ RunPipeline /\ UNCHANGED <<planned, down, pipes, console>>
  \/ Post /\ UNCHANGED <<planned, down, pipes, console>>
  \/ Exit /\ UNCHANGED <<planned, down, pipes, console>>
  \/ Write
  \/ Read

SpecOutput == Init /\ [][NextOutput]_vars

====
